---- MODULE Spec2Model ----
(***************************************************************************)
(* Model of the HTTP-to-stdio bridge of the Kiwi TCMS MCP server           *)
(* (src/wrapper.js, class KiwiTcmsMCPWrapper).                             *)
(*                                                                         *)
(* Text is a sequence of one-character strings.  The alphabet is           *)
(*   "{" "}" "[" "]"   JSON punctuation                                    *)
(*   "a" "b" "0" "t0" "t1" ...  an id member of a JSON object: the symbol  *)
(*                     X inside braces stands for  "id":X,"result":...     *)
(*   " "               a blank,   "x"  a character of log text             *)
(*   "E"               the word ERROR or WARN in stderr text               *)
(*   "\n"              the line terminator                                 *)
(* A call is a number 1..MaxCalls; it stands for the resolve/reject pair   *)
(* of the promise that forwardToMCP creates for the HTTP request.          *)
(***************************************************************************)
EXTENDS Integers, Sequences, FiniteSets, TLC

VARIABLES
    bridge,          \* "running" | "exited" (process.exit(1)) | "crashed" (uncaught exception)
    envOk,           \* KIWI_BASE_URL and KIWI_TOKEN are both set
    isReady,         \* this.isReady
    requestQueue,    \* this.requestQueue: sequence of [id, call]
    responseBuffer,  \* this.responseBuffer: text
    mcpProcess,      \* this.mcpProcess: 0 is null, n is the n-th spawned child
    workers,         \* state of every child: "none" | "alive" | "failed" | "errored" |
                     \*   "exited" (gone, its stdout not yet drained) | "closed"
    readyTimers,     \* children whose 3000 ms warm-up timer is armed
    restartTimers,   \* number of armed 5000 ms restart timers
    now,             \* Date.now() when the latest request arrived, in clock ticks
    nextCall,        \* the next HTTP request to arrive
    outcome,         \* what each HTTP request was answered with
    timers,          \* the armed 120000 ms call timers, in firing order: [id, call]
    stdin,           \* what the step wrote to a child's stdin: <<>> or <<[to, id, call, line]>>
    pipe,            \* text a child has written to stdout and the bridge has not yet read
    written,         \* the lines the child has written to stdout, in order
    delivered,       \* the strings passed to handleMCPResponse, in order
    stderrLog        \* the latest stderr chunk as logged: [level, text]

vars == <<bridge, envOk, isReady, requestQueue, responseBuffer, mcpProcess, workers,
          readyTimers, restartTimers, now, nextCall, outcome, timers, stdin,
          pipe, written, delivered, stderrLog>>

\* ------------------------------------------------------------------ bounds

MaxCalls == 2
MaxSpawns == 2
MaxLines == 2

\* ------------------------------------------------------- program constants

CallTimeout == 120000
ReadyDelay == 3000
RestartDelay == 5000

\* ------------------------------------------------------------------- values

NoId == "undefined"
CallerIds == {"a", "b"}
FalsyIds == {"0"}
RequestIds == CallerIds \cup FalsyIds \cup {NoId}
Calls == 1..MaxCalls

\* Date.now() at clock value t
DateNow(t) == IF t = 0 THEN "t0" ELSE IF t = 1 THEN "t1" ELSE IF t = 2 THEN "t2" ELSE "t3"
ClockValues == {0, 1}
ClockIds == {DateNow(t) : t \in ClockValues}
AllIds == CallerIds \cup FalsyIds \cup ClockIds

\* request.id || Date.now()
Truthy(id) == id \notin FalsyIds /\ id # NoId
RequestId(id, t) == IF Truthy(id) THEN id ELSE DateNow(t)

NoLog == [level |-> "none", text |-> <<>>]
NoResp == [id |-> "none"]
Outcome(k, r) == [kind |-> k, resp |-> r]
Unsent == Outcome("none", NoResp)
Pending == Outcome("pending", NoResp)

\* --------------------------------------------------------------------- text

NL == "\n"
IsSpace(ch) == ch \in {" ", NL}

RECURSIVE TrimStart(_)
TrimStart(s) ==
    IF s # <<>> /\ IsSpace(Head(s)) THEN TrimStart(Tail(s)) ELSE s

RECURSIVE TrimEnd(_)
TrimEnd(s) ==
    IF s # <<>> /\ IsSpace(s[Len(s)]) THEN TrimEnd(SubSeq(s, 1, Len(s) - 1)) ELSE s

\* String.prototype.trim
Trim(s) == TrimEnd(TrimStart(s))

\* String.prototype.startsWith, for a one-character prefix
StartsWith(s, ch) == s # <<>> /\ Head(s) = ch

\* the index of the first line terminator of s, 0 when there is none
RECURSIVE IndexOfNL(_, _)
IndexOfNL(s, i) ==
    IF i > Len(s) THEN 0 ELSE IF s[i] = NL THEN i ELSE IndexOfNL(s, i + 1)

\* String.prototype.split('\n'): always at least one piece
RECURSIVE Split(_)
Split(s) ==
    LET i == IndexOfNL(s, 1)
    IN  IF i = 0 THEN <<s>>
        ELSE <<SubSeq(s, 1, i - 1)>> \o Split(SubSeq(s, i + 1, Len(s)))

\* Array.prototype.pop: the array without its last element
Front(a) == SubSeq(a, 1, Len(a) - 1)
Last(a) == a[Len(a)]

\* JSON.parse of a trimmed text that starts with "{" or "[".  Blanks between
\* tokens are insignificant.  The well-formed texts of the alphabet are an
\* object with an id member, an object without one, and an empty array (whose
\* .id is undefined); anything else is a SyntaxError.
JsonParse(text) ==
    LET t == SelectSeq(text, LAMBDA ch : ch # " ")
    IN  IF Len(t) = 3 /\ t[1] = "{" /\ t[2] \in AllIds /\ t[3] = "}"
        THEN [ok |-> TRUE, value |-> [id |-> t[2]]]
        ELSE IF t = <<"{", "}">> \/ t = <<"[", "]">>
        THEN [ok |-> TRUE, value |-> [id |-> NoId]]
        ELSE [ok |-> FALSE, value |-> NoResp]

\* JSON.stringify(response) + '\n' as the child writes it
JsonLine(id) == IF id = NoId THEN <<"{", "}", NL>> ELSE <<"{", id, "}", NL>>

\* ------------------------------------------------------------ the promises

\* resolve(value) / reject(error) of the promise of call c: the first call
\* settles the promise, every later one is a no-op
Settle(out, c, o) == IF out[c] = Pending THEN [out EXCEPT ![c] = o] ELSE out

\* Array.prototype.findIndex(req => req.id === id), 1-based; 0 when none
RECURSIVE FindFrom(_, _, _)
FindFrom(q, id, i) ==
    IF i > Len(q) THEN 0 ELSE IF q[i].id = id THEN i ELSE FindFrom(q, id, i + 1)

FindIndex(q, id) == FindFrom(q, id, 1)

\* Array.prototype.splice(i, 1)
Splice(q, i) == SubSeq(q, 1, i - 1) \o SubSeq(q, i + 1, Len(q))

\* ------------------------------------------------------- handleMCPResponse

\* handleMCPResponse without its try/catch and with an unchecked index: a
\* response that matches no entry throws (request is undefined)
handleMCPResponse_unchecked(responseText, q, out) ==
    LET trimmed == Trim(responseText)
        parsed == JsonParse(trimmed)
        queueIndex == FindIndex(q, parsed.value.id)
    IN  IF ~StartsWith(trimmed, "{") /\ ~StartsWith(trimmed, "[")
        THEN [q |-> q, out |-> out, threw |-> FALSE]
        ELSE IF ~parsed.ok
        THEN [q |-> q, out |-> out, threw |-> TRUE]
        ELSE IF queueIndex # 0
        THEN [q |-> Splice(q, queueIndex),
              out |-> Settle(out, q[queueIndex].call, Outcome("response", parsed.value)),
              threw |-> FALSE]
        ELSE [q |-> q, out |-> out, threw |-> TRUE]

\* handleMCPResponse matching by arrival order: the oldest entry is resolved.
handleMCPResponse_byOrder(responseText, q, out) ==
    LET trimmed == Trim(responseText)
        parsed == JsonParse(trimmed)
    IN  IF ~StartsWith(trimmed, "{") /\ ~StartsWith(trimmed, "[")
        THEN [q |-> q, out |-> out, threw |-> FALSE]
        ELSE IF ~parsed.ok
        THEN [q |-> q, out |-> out, threw |-> FALSE]
        ELSE IF q # <<>>
        THEN [q |-> Tail(q),
              out |-> Settle(out, q[1].call, Outcome("response", parsed.value)),
              threw |-> FALSE]
        ELSE [q |-> q, out |-> out, threw |-> FALSE]

\* handleMCPResponse without its try/catch: the SyntaxError of JSON.parse
\* leaves the method
handleMCPResponse_noCatch(responseText, q, out) ==
    LET trimmed == Trim(responseText)
        parsed == JsonParse(trimmed)
        queueIndex == FindIndex(q, parsed.value.id)
    IN  IF ~StartsWith(trimmed, "{") /\ ~StartsWith(trimmed, "[")
        THEN [q |-> q, out |-> out, threw |-> FALSE]
        ELSE IF ~parsed.ok
        THEN [q |-> q, out |-> out, threw |-> TRUE]
        ELSE IF queueIndex # 0
        THEN [q |-> Splice(q, queueIndex),
              out |-> Settle(out, q[queueIndex].call, Outcome("response", parsed.value)),
              threw |-> FALSE]
        ELSE [q |-> q, out |-> out, threw |-> FALSE]

\* The effect of handleMCPResponse(responseText) on the queue and the
\* promises; threw: an exception leaves the method.
handleMCPResponse(responseText, q, out) ==
    LET trimmed == Trim(responseText)
        parsed == JsonParse(trimmed)
        queueIndex == FindIndex(q, parsed.value.id)
    IN  IF ~StartsWith(trimmed, "{") /\ ~StartsWith(trimmed, "[")
        THEN [q |-> q, out |-> out, threw |-> FALSE]
        ELSE IF ~parsed.ok
        THEN [q |-> q, out |-> out, threw |-> FALSE]      \* caught, logged
        ELSE IF queueIndex # 0
        THEN [q |-> Splice(q, queueIndex),
              out |-> Settle(out, q[queueIndex].call, Outcome("response", parsed.value)),
              threw |-> FALSE]
        ELSE [q |-> q, out |-> out, threw |-> FALSE]

\* ------------------------------------------------- stdout.on('data', ...)

\* the forEach without the test of line.trim(): every line is handed over
RECURSIVE ForEachLine_noSkip(_, _)
ForEachLine_noSkip(lines, st) ==
    IF lines = <<>> \/ st.threw THEN st
    ELSE LET line == Head(lines)
             r == handleMCPResponse(Trim(line), st.q, st.out)
         IN  ForEachLine_noSkip(Tail(lines),
                 [q |-> r.q, out |-> r.out, threw |-> r.threw,
                  dl |-> Append(st.dl, Trim(line))])

\* lines.forEach(line => { if (line.trim()) this.handleMCPResponse(line.trim()) })
RECURSIVE ForEachLine(_, _)
ForEachLine(lines, st) ==
    IF lines = <<>> \/ st.threw THEN st
    ELSE LET line == Head(lines)
             r == handleMCPResponse(Trim(line), st.q, st.out)
         IN  IF Trim(line) # <<>>
             THEN ForEachLine(Tail(lines),
                      [q |-> r.q, out |-> r.out, threw |-> r.threw,
                       dl |-> Append(st.dl, Trim(line))])
             ELSE ForEachLine(Tail(lines), st)

\* the stdout handler forgetting the incomplete last line
KeptFragment_dropped(pieces) == <<>>

\* this.responseBuffer = lines.pop() || ''
KeptFragment(pieces) == Last(pieces)

\* the stdout handler leaving the whole text in the buffer
OnStdoutData_keepsAll(data, buf, q, out) ==
    LET pieces == Split(buf \o data)
        st == ForEachLine(Front(pieces), [q |-> q, out |-> out, threw |-> FALSE, dl |-> <<>>])
    IN  [buf |-> buf \o data, q |-> st.q, out |-> st.out,
         threw |-> st.threw, dl |-> st.dl]

\* The stdout 'data' handler applied to the chunk data.
OnStdoutData(data, buf, q, out) ==
    LET pieces == Split(buf \o data)
        st == ForEachLine(Front(pieces), [q |-> q, out |-> out, threw |-> FALSE, dl |-> <<>>])
    IN  [buf |-> KeptFragment(pieces), q |-> st.q, out |-> st.out,
         threw |-> st.threw, dl |-> st.dl]


\* ------------------------------------------------------------ initializeMCP

SpawnResults == {"alive", "failed", "threw"}
Spawned == {p \in 1..MaxSpawns : workers[p] # "none"}
Alive == {p \in 1..MaxSpawns : workers[p] = "alive"}

\* initializeMCP without the validation of KIWI_BASE_URL and KIWI_TOKEN
initializeMCP_unvalidated(env, result, n, cur) ==
    IF result = "threw"
    THEN [cur EXCEPT !.bridge = "exited"]
    ELSE [bridge |-> cur.bridge,
          mcpProcess |-> n + 1,
          workers |-> [cur.workers EXCEPT ![n + 1] = result],
          readyTimers |-> cur.readyTimers \cup {n + 1}]

\* initializeMCP() run when n children were spawned before.  env: the two
\* required variables are set; result: what spawn('node', ...) does, "alive"
\* (a running child), "failed" (a child that will emit 'error'), "threw".
\* cur is the record of the fields the method may change.
initializeMCP(env, result, n, cur) ==
    IF ~env
    THEN [cur EXCEPT !.bridge = "exited"]                     \* process.exit(1)
    ELSE IF result = "threw"
    THEN [cur EXCEPT !.bridge = "exited"]                     \* catch: process.exit(1)
    ELSE [bridge |-> cur.bridge,
          mcpProcess |-> n + 1,
          workers |-> [cur.workers EXCEPT ![n + 1] = result],
          readyTimers |-> cur.readyTimers \cup {n + 1}]

Constructed == [bridge |-> "running", mcpProcess |-> 0,
                workers |-> [p \in 1..MaxSpawns |-> "none"], readyTimers |-> {}]

\* The state after `new KiwiTcmsMCPWrapper()`.
Init ==
    /\ envOk \in BOOLEAN
    /\ \E result \in SpawnResults :
         LET st == initializeMCP(envOk, result, 0, Constructed)
         IN  /\ bridge = st.bridge
             /\ mcpProcess = st.mcpProcess
             /\ workers = st.workers
             /\ readyTimers = st.readyTimers
    /\ isReady = FALSE
    /\ requestQueue = <<>>
    /\ responseBuffer = <<>>
    /\ restartTimers = 0
    /\ now = 0
    /\ nextCall = 1
    /\ outcome = [c \in Calls |-> Unsent]
    /\ timers = <<>>
    /\ stdin = <<>>
    /\ pipe = <<>>
    /\ written = <<>>
    /\ delivered = <<>>
    /\ stderrLog = NoLog

callVars == <<requestQueue, nextCall, outcome, timers>>
workerVars == <<mcpProcess, workers, readyTimers, restartTimers>>
readerVars == <<pipe, written, delivered, stderrLog>>

\* the step writes nothing to a child's stdin
NoWrite == stdin' = <<>>

\* No 'error' event is waiting to be emitted.  A failed spawn emits 'error'
\* on the next tick, before any timer, stream or HTTP event is handled.
NoTickPending == \A p \in 1..MaxSpawns : workers[p] # "failed"

\* setTimeout(() => this.initializeMCP(), 5000) fires.  The 3000 ms warm-up
\* timer of every earlier child was armed at least 5000 ms ago and has fired.
RestartTimerFires(result) ==
    /\ bridge = "running"
    /\ NoTickPending
    /\ restartTimers > 0
    /\ ReadyDelay < RestartDelay => readyTimers = {}
    /\ Cardinality(Spawned) < MaxSpawns
    /\ LET st == initializeMCP(envOk, result, Cardinality(Spawned),
                     [bridge |-> bridge, mcpProcess |-> mcpProcess,
                      workers |-> workers, readyTimers |-> readyTimers])
       IN  /\ bridge' = st.bridge
           /\ mcpProcess' = st.mcpProcess
           /\ workers' = st.workers
           /\ readyTimers' = st.readyTimers
    /\ restartTimers' = restartTimers - 1
    /\ NoWrite
    /\ UNCHANGED <<envOk, isReady, responseBuffer, now, callVars, readerVars>>

\* The warm-up timer of child p fires: this.isReady = true.
ReadyTimerFires(p) ==
    /\ bridge = "running"
    /\ NoTickPending
    /\ p \in readyTimers
    /\ readyTimers' = readyTimers \ {p}
    /\ isReady' = TRUE
    /\ NoWrite
    /\ UNCHANGED <<bridge, envOk, responseBuffer, mcpProcess, workers, restartTimers,
                   now, callVars, readerVars>>

\* mcpProcess.on('close'): child p has exited (or failed to start) and its
\* stdio streams are closed, so everything it wrote has been read.
OnClose(p) ==
    /\ bridge = "running"
    /\ NoTickPending
    /\ workers[p] \in {"alive", "errored", "exited"}
    /\ pipe = <<>>
    /\ workers' = [workers EXCEPT ![p] = "closed"]
    /\ isReady' = FALSE
    /\ restartTimers' = restartTimers + 1
    /\ NoWrite
    /\ UNCHANGED <<bridge, envOk, responseBuffer, mcpProcess, readyTimers, now,
                   callVars, readerVars>>

\* mcpProcess.on('error') that also schedules a restart
OnError_restarts(p) ==
    /\ bridge = "running"
    /\ workers[p] = "failed"
    /\ workers' = [workers EXCEPT ![p] = "errored"]
    /\ isReady' = FALSE
    /\ restartTimers' = restartTimers + 1
    /\ NoWrite
    /\ UNCHANGED <<bridge, envOk, responseBuffer, mcpProcess, readyTimers,
                   now, callVars, readerVars>>

\* mcpProcess.on('error'): child p could not be spawned.
OnError(p) ==
    /\ bridge = "running"
    /\ workers[p] = "failed"
    /\ workers' = [workers EXCEPT ![p] = "errored"]
    /\ isReady' = FALSE
    /\ NoWrite
    /\ UNCHANGED <<bridge, envOk, responseBuffer, mcpProcess, readyTimers, restartTimers,
                   now, callVars, readerVars>>

\* ------------------------------------------------ POST /mcp, forwardToMCP

\* JSON.stringify(request) for a request whose id member is id
RequestText(id) == IF id = NoId THEN <<"{", "}">> ELSE <<"{", id, "}">>

\* the request written without the line terminator
RequestLine_unterminated(id) == RequestText(id)

\* JSON.stringify(request) + '\n', the argument of the one stdin.write
RequestLine(id) == RequestText(id) \o <<NL>>

\* forwardToMCP writing the request without registering the call
forwardToMCP_unregistered(c, id, t, throws, q, out, tm) ==
    LET requestId == RequestId(id, t)
    IN  IF ~throws
        THEN [q |-> q,
              out |-> [out EXCEPT ![c] = Pending],
              tm |-> Append(tm, [id |-> requestId, call |-> c]),
              sin |-> <<[to |-> mcpProcess, id |-> id, call |-> c,
                        line |-> RequestLine(id)]>>]
        ELSE [q |-> q,
              out |-> [out EXCEPT ![c] = Outcome("sendError", NoResp)],
              tm |-> tm,
              sin |-> <<>>]

\* forwardToMCP(request) for call c at clock value t; id is request.id,
\* throws: stdin.write throws.  The result is the record of what changes.
forwardToMCP(c, id, t, throws, q, out, tm) ==
    LET requestId == RequestId(id, t)
        pushed == Append(q, [id |-> requestId, call |-> c])
    IN  IF ~throws
        THEN [q |-> pushed,
              out |-> [out EXCEPT ![c] = Pending],
              tm |-> Append(tm, [id |-> requestId, call |-> c]),
              sin |-> <<[to |-> mcpProcess, id |-> id, call |-> c,
                        line |-> RequestLine(id)]>>]
        ELSE [q |-> pushed,
              out |-> [out EXCEPT ![c] = Outcome("sendError", NoResp)],   \* reject(error); return
              tm |-> tm,
              sin |-> <<>>]

\* The POST /mcp route for the next HTTP request, arriving at clock value t.
PostMcp(id, t, throws) ==
    /\ bridge = "running"
    /\ NoTickPending
    /\ nextCall <= MaxCalls
    /\ t >= now
    /\ now' = t
    /\ nextCall' = nextCall + 1
    /\ IF ~isReady
       THEN /\ outcome' = [outcome EXCEPT ![nextCall] = Outcome("unavailable", NoResp)]   \* 503
            /\ NoWrite
            /\ UNCHANGED <<requestQueue, timers>>
       ELSE LET r == forwardToMCP(nextCall, id, t, throws, requestQueue, outcome, timers)
            IN  /\ requestQueue' = r.q
                /\ outcome' = r.out
                /\ timers' = r.tm
                /\ stdin' = r.sin
    /\ UNCHANGED <<bridge, envOk, isReady, responseBuffer, workerVars, readerVars>>

\* What the POST /mcp route answers for an outcome: the HTTP status and the
\* error and message members of the body.
HttpReply(o) ==
    IF o.kind = "unavailable"
    THEN [status |-> 503, error |-> "Kiwi TCMS MCP not ready",
          message |-> "MCP server is initializing"]
    ELSE IF o.kind = "response"
    THEN [status |-> 200, error |-> "", message |-> ""]
    ELSE IF o.kind = "timeout"
    THEN [status |-> 500, error |-> "Kiwi TCMS MCP request failed",
          message |-> "Request timeout after 2 minutes"]
    ELSE IF o.kind = "sendError"
    THEN [status |-> 500, error |-> "Kiwi TCMS MCP request failed",
          message |-> "write failed"]
    ELSE [status |-> 0, error |-> "", message |-> ""]       \* no answer yet

\* The timeout callback of a call: t is the closure (requestId, reject).
OnTimeout(t, q, out) ==
    LET queueIndex == FindIndex(q, t.id)
    IN  IF queueIndex # 0
        THEN [q |-> Splice(q, queueIndex),
              out |-> Settle(out, t.call, Outcome("timeout", NoResp))]
        ELSE [q |-> q, out |-> out]

\* The oldest armed call timer fires (all have the same delay, so they fire
\* in the order they were armed).
TimeoutFires ==
    /\ bridge = "running"
    /\ NoTickPending
    /\ timers # <<>>
    /\ LET r == OnTimeout(Head(timers), requestQueue, outcome)
       IN  /\ requestQueue' = r.q
           /\ outcome' = r.out
    /\ timers' = Tail(timers)
    /\ NoWrite
    /\ UNCHANGED <<bridge, envOk, isReady, responseBuffer, workerVars, now,
                   nextCall, readerVars>>

\* ------------------------------------------------------------ stdout data

\* A 'data' event of a child's stdout with chunk data; hist: the lines handed
\* to handleMCPResponse are recorded in delivered.
StdoutChunk(data, hist) ==
    /\ bridge = "running"
    /\ NoTickPending
    /\ LET r == OnStdoutData(data, responseBuffer, requestQueue, outcome)
       IN  /\ responseBuffer' = r.buf
           /\ requestQueue' = r.q
           /\ outcome' = r.out
           /\ bridge' = IF r.threw THEN "crashed" ELSE bridge
           /\ delivered' = IF hist THEN delivered \o r.dl ELSE delivered
    /\ NoWrite
    /\ UNCHANGED <<envOk, isReady, workerVars, now, nextCall, timers, written, stderrLog>>

\* A live child writes one complete response line and the bridge reads it
\* as one chunk.
WorkerResponds(id) ==
    /\ Alive # {}
    /\ StdoutChunk(JsonLine(id), FALSE)
    /\ UNCHANGED pipe

\* ------------------------------------------------- stderr.on('data', ...)

\* message.includes('ERROR') || message.includes('WARN'): the character "E"
\* stands for either word
IsWarning(message) == \E i \in 1..Len(message) : message[i] = "E"

\* console.log('⚠️  Kiwi TCMS MCP:', message.trim()) or the same with '📋'
LogLine(message) ==
    [level |-> IF IsWarning(message) THEN "warning" ELSE "info", text |-> Trim(message)]

\* a stderr handler that treats the text like stdout
OnStderrData_parsed(data, buf, q, out) ==
    LET r == OnStdoutData(data, buf, q, out)
    IN  [buf |-> r.buf, q |-> r.q, out |-> r.out,
         log |-> LogLine(data)]

\* The stderr 'data' handler applied to the chunk data: the text is logged.
OnStderrData(data, buf, q, out) ==
    [buf |-> buf, q |-> q, out |-> out,
     log |-> LogLine(data)]

\* A 'data' event of a child's stderr with chunk data.
StderrChunk(data) ==
    /\ bridge = "running"
    /\ NoTickPending
    /\ Alive # {}
    /\ LET r == OnStderrData(data, responseBuffer, requestQueue, outcome)
       IN  /\ responseBuffer' = r.buf
           /\ requestQueue' = r.q
           /\ outcome' = r.out
           /\ stderrLog' = r.log
    /\ NoWrite
    /\ UNCHANGED <<bridge, envOk, isReady, workerVars, now, nextCall, timers,
                   pipe, written, delivered>>

\* ------------------------------------------------- the child's stdout pipe

\* The complete lines a child may write to stdout (each without its
\* terminator): responses for "a" and "b", an object without id, an array,
\* truncated JSON, log text, an empty line, a blank line, a response with
\* blanks around it.
Lines == { <<"{", "a", "}">>, <<"{", "b", "}">>, <<"{", "}">>, <<"[", "]">>,
           <<"{", "a">>, <<"x">>, <<>>, <<" ">>, <<" ", "{", "a", "}", " ">> }

\* A live child writes the line and its terminator to stdout.
WorkerWrites(line) ==
    /\ bridge = "running"
    /\ NoTickPending
    /\ Alive # {}
    /\ Len(written) < MaxLines
    /\ pipe' = pipe \o line \o <<NL>>
    /\ written' = Append(written, line)
    /\ NoWrite
    /\ UNCHANGED <<bridge, envOk, isReady, requestQueue, responseBuffer, workerVars, now,
                   nextCall, outcome, timers, delivered, stderrLog>>

\* The beginnings of a line a child may have written when it dies.
Fragments == { <<"{">>, <<"{", "a">>, <<"x">> }

\* A live child writes the beginning of a line to stdout and exits before
\* completing it.
WorkerDiesMidLine(frag) ==
    /\ bridge = "running"
    /\ NoTickPending
    /\ Alive # {}
    /\ pipe' = pipe \o frag
    /\ workers' = [p \in 1..MaxSpawns |-> IF workers[p] = "alive" THEN "exited" ELSE workers[p]]
    /\ NoWrite
    /\ UNCHANGED <<bridge, envOk, isReady, requestQueue, responseBuffer, mcpProcess,
                   readyTimers, restartTimers, now, nextCall, outcome, timers,
                   written, delivered, stderrLog>>

\* The bridge reads the first k characters of the pipe as one chunk.
PipeData(k) ==
    /\ k \in 1..Len(pipe)
    /\ StdoutChunk(SubSeq(pipe, 1, k), TRUE)
    /\ pipe' = SubSeq(pipe, k + 1, Len(pipe))

Next ==
    \/ \E id \in RequestIds, t \in ClockValues, throws \in BOOLEAN : PostMcp(id, t, throws)
    \/ TimeoutFires
    \/ \E id \in AllIds \cup {NoId} : WorkerResponds(id)
    \/ \E p \in 1..MaxSpawns : ReadyTimerFires(p)
    \/ \E p \in 1..MaxSpawns : OnClose(p)
    \/ \E p \in 1..MaxSpawns : OnError(p)
    \/ \E result \in SpawnResults : RestartTimerFires(result)

Spec == Init /\ [][Next]_vars

\* The bridge with its first child running and warmed up, no request yet.
InitReader ==
    /\ bridge = "running"
    /\ envOk = TRUE
    /\ isReady = TRUE
    /\ requestQueue = <<>>
    /\ responseBuffer = <<>>
    /\ mcpProcess = 1
    /\ workers = [p \in 1..MaxSpawns |-> IF p = 1 THEN "alive" ELSE "none"]
    /\ readyTimers = {}
    /\ restartTimers = 0
    /\ now = 0
    /\ nextCall = 1
    /\ outcome = [c \in Calls |-> Unsent]
    /\ timers = <<>>
    /\ stdin = <<>>
    /\ pipe = <<>>
    /\ written = <<>>
    /\ delivered = <<>>
    /\ stderrLog = NoLog

NextReader ==
    \/ PostMcp("a", now, FALSE)
    \/ \E line \in Lines : WorkerWrites(line)
    \/ \E k \in 1..Len(pipe) : PipeData(k)

\* The stream reader: requests with id "a", a child writing lines, and the
\* pipe cut into chunks at every position.
SpecReader == InitReader /\ [][NextReader]_vars

\* What a child may write to stderr in one chunk: responses for "a" and
\* "b", log text, a warning, truncated JSON.
StderrTexts == { <<"{", "a", "}", NL>>, <<"{", "b", "}", NL>>, <<"x", NL>>,
                 <<"E", "x", NL>>, <<"{", "a">> }

NextStderr ==
    \/ \E id \in CallerIds : PostMcp(id, now, FALSE)
    \/ \E data \in StderrTexts : StderrChunk(data)
    \/ \E id \in CallerIds : WorkerResponds(id)
    \/ TimeoutFires

\* The bridge with a warmed-up child that writes to stderr and answers on
\* stdout, requests with ids "a" and "b", and call timers.
SpecStderr == InitReader /\ [][NextStderr]_vars

\* The complete lines the children write in the restart scenario.
RestartLines == { <<"{", "a", "}">>, <<"{", "b", "}">>, <<"x">> }

NextRestart ==
    \/ PostMcp("a", now, FALSE)
    \/ \E line \in RestartLines : WorkerWrites(line)
    \/ \E frag \in Fragments : WorkerDiesMidLine(frag)
    \/ \E k \in 1..Len(pipe) : PipeData(k)
    \/ \E p \in 1..MaxSpawns : OnClose(p)
    \/ \E p \in 1..MaxSpawns : ReadyTimerFires(p)
    \/ RestartTimerFires("alive")

\* The stream reader across restarts: a child writes lines, may die in the
\* middle of one, and is replaced by the next child after the restart delay.
SpecRestart == InitReader /\ [][NextRestart]_vars

\* ================================================================= claims

InQueue(q, c) == \E i \in 1..Len(q) : q[i].call = c
HasTimer(c) == \E i \in 1..Len(timers) : timers[i].call = c
QueueIds(q) == {q[i].id : i \in 1..Len(q)}
EntryOf(q, c) == CHOOSE i \in 1..Len(q) : q[i].call = c

\* C1: a call is resolved only with a response whose id equals the id its
\* entry was registered under, whatever the order of the responses; with
\* pairwise distinct ids in flight that is never another call's response.
C1_CorrelationCorrectness ==
    [][\A c \in Calls :
         (outcome[c] = Pending /\ outcome'[c].kind = "response")
            => /\ InQueue(requestQueue, c)
               /\ requestQueue[EntryOf(requestQueue, c)].id = outcome'[c].resp.id
               /\ \A d \in Calls \ {c} :
                    (InQueue(requestQueue, d)
                       /\ requestQueue[EntryOf(requestQueue, d)].id # outcome'[c].resp.id)
                      => /\ outcome'[d] = outcome[d]
                         /\ InQueue(requestQueue', d)]_vars

\* C1 witness: two calls with distinct ids were in flight and the response of
\* the later one arrived first.
C1_Witness ==
    /\ outcome[1] = Pending
    /\ InQueue(requestQueue, 1)
    /\ outcome[2].kind = "response"
    /\ outcome[2].resp.id # requestQueue[EntryOf(requestQueue, 1)].id

\* C2: once a call has an outcome through a response or its timeout, the
\* outcome never changes again and the call's entry is no longer in
\* requestQueue.
C2_ResolvedOnceAndRemoved ==
    \A c \in Calls :
        outcome[c].kind \in {"response", "timeout"} => ~InQueue(requestQueue, c)

\* C2, the part the code keeps: a settled outcome is never replaced.
C2_OutcomeIsFinal ==
    [][\A c \in Calls : outcome[c].kind \notin {"none", "pending"} => outcome'[c] = outcome[c]]_vars

\* C3: every accepted call eventually gets an outcome.  A call can only be
\* settled through its entry in requestQueue (a response) or by its own
\* timer, so the claim requires that a call without an outcome still has one
\* of the two; a pending call with neither is never answered.
C3_EveryCallReachesOutcome ==
    \A c \in Calls :
        outcome[c] = Pending => (InQueue(requestQueue, c) \/ HasTimer(c))

\* C4: when a child exits ('close') every outstanding call in requestQueue
\* fails at that moment with a worker-crashed outcome and requestQueue holds
\* none of them afterwards.
C4_CrashPropagation ==
    [][\A p \in 1..MaxSpawns :
         (workers[p] # "closed" /\ workers'[p] = "closed")
            => \A c \in Calls :
                  (InQueue(requestQueue, c) /\ outcome[c] = Pending)
                     => /\ outcome'[c].kind = "workerCrashed"
                        /\ ~InQueue(requestQueue', c)]_vars

\* the step is the firing of the oldest call timer
TimerStep == timers # <<>> /\ timers' = Tail(timers)

\* the number of line terminators in s
CountNL(s) == Cardinality({i \in 1..Len(s) : s[i] = NL})

\* the lines of written that the bridge has read up to their terminator
LinesRead == SubSeq(written, 1, Len(written) - CountNL(pipe))

\* each line trimmed, the lines that are empty after trimming left out
RECURSIVE TrimmedNonBlank(_)
TrimmedNonBlank(ls) ==
    IF ls = <<>> THEN <<>>
    ELSE (IF Trim(Head(ls)) # <<>> THEN <<Trim(Head(ls))>> ELSE <<>>)
             \o TrimmedNonBlank(Tail(ls))

C6_TimeoutRemovesCall ==
    [][(TimerStep /\ InQueue(requestQueue, Head(timers).call))
          => /\ outcome'[Head(timers).call].kind = "timeout"
             /\ ~InQueue(requestQueue', Head(timers).call)]_vars

\* C7: the firing of the timer of one call leaves the entry and the outcome
\* of every other outstanding call as they were.
C7_TimeoutIsolation ==
    [][TimerStep
          => \A d \in Calls \ {Head(timers).call} :
                outcome[d] = Pending
                   => /\ outcome'[d] = outcome[d]
                      /\ InQueue(requestQueue, d) => InQueue(requestQueue', d)]_vars

\* the strings the step passed to handleMCPResponse
NewLines == SubSeq(delivered', Len(delivered) + 1, Len(delivered'))

\* a well-formed JSON line whose id is the id of no entry of requestQueue
UnmatchedResponse(line) ==
    /\ JsonParse(line).ok
    /\ JsonParse(line).value.id \notin QueueIds(requestQueue)

\* C8: a chunk whose lines are well-formed responses with ids that match no
\* entry of requestQueue leaves requestQueue, the outcomes and the timers as
\* they are and raises no error.  In particular, with call 1 registered as
\* "a", the stream {a}\n{ followed by b}\n resolves call 1 with the first
\* chunk, and the second chunk completes the line {b}, which is handed over
\* and dropped, the reader running on with an empty buffer.
C8_UnmatchedResponseTolerance ==
    [][/\ (NewLines # <<>> /\ \A i \in 1..Len(NewLines) : UnmatchedResponse(NewLines[i]))
          => /\ UNCHANGED <<requestQueue, outcome, timers>>
             /\ bridge' = "running"
       /\ (/\ requestQueue = <<[id |-> "a", call |-> 1]>>
           /\ responseBuffer = <<>>
           /\ pipe = <<"{", "a", "}", NL, "{", "b", "}", NL>>
           /\ pipe' = <<"b", "}", NL>>)
          => /\ outcome'[1] = Outcome("response", [id |-> "a"])
             /\ requestQueue' = <<>>
             /\ responseBuffer' = <<"{">>
             /\ bridge' = "running"
       /\ (/\ responseBuffer = <<"{">>
           /\ pipe = <<"b", "}", NL>>
           /\ pipe' = <<>>)
          => /\ UNCHANGED <<requestQueue, outcome, timers>>
             /\ NewLines = << <<"{", "b", "}">> >>
             /\ responseBuffer' = <<>>
             /\ bridge' = "running"]_vars

\* C8 witness: call 1 was resolved by the first chunk {a}\n{ and the rest of
\* the response for the unregistered id "b" is about to arrive.
C8_Witness ==
    /\ outcome[1] = Outcome("response", [id |-> "a"])
    /\ written = << <<"{", "a", "}">>, <<"{", "b", "}">> >>
    /\ delivered = << <<"{", "a", "}">> >>
    /\ responseBuffer = <<"{">>
    /\ pipe = <<"b", "}", NL>>
    /\ bridge = "running"

\* the step is a POST /mcp that reaches forwardToMCP
ForwardStep == nextCall' = nextCall + 1 /\ isReady

\* C9: a call submitted with a caller-supplied id equal to the id of an
\* outstanding call that is in requestQueue is rejected at registration and
\* requestQueue is left unchanged: no step of forwardToMCP adds an entry
\* with such an id.
C9_DuplicateIdRejected ==
    [][(ForwardStep /\ Len(requestQueue') = Len(requestQueue) + 1
           /\ requestQueue'[Len(requestQueue')].id \in CallerIds)
          => \A i \in 1..Len(requestQueue) :
                outcome[requestQueue[i].call] = Pending
                   => requestQueue'[Len(requestQueue')].id # requestQueue[i].id]_vars

\* C10: no two entries of requestQueue have the same id; in particular no
\* two entries whose ids the bridge generated itself (request.id ||
\* Date.now()), which is the case stated here.
C10_UniqueIds ==
    \A i, j \in 1..Len(requestQueue) :
        (requestQueue[i].id \in ClockIds /\ requestQueue[i].id = requestQueue[j].id) => i = j

\* the children that are running and whose warm-up delay has passed
ReadyWorkers == {p \in Alive : p \notin readyTimers}

\* the step is the arrival of a POST /mcp request
PostStep == nextCall' = nextCall + 1

\* C11: a request that arrives while no child is both running and warmed up
\* is answered at once with the worker-unavailable outcome (503), is not
\* added to requestQueue, and nothing is written to a child's stdin.
C11_WorkerUnavailable ==
    [][(PostStep /\ ReadyWorkers = {})
          => /\ outcome'[nextCall] = Outcome("unavailable", NoResp)
             /\ requestQueue' = requestQueue
             /\ stdin' = <<>>]_vars

\* C12: at most one spawned child is live at a time; initializeMCP spawns a
\* child only when every child spawned before has emitted 'close'; every
\* 'close' arms exactly one restart timer, nothing else arms one, and a
\* restart timer that fires is consumed by its one spawn attempt.
C12_SingleLiveWorker ==
    /\ [](Cardinality(Alive) <= 1)
    /\ [][/\ mcpProcess' # mcpProcess
             => /\ \A p \in Spawned : workers[p] = "closed"
                /\ restartTimers' = restartTimers - 1
          /\ \A p \in 1..MaxSpawns :
               (workers[p] # "closed" /\ workers'[p] = "closed")
                  => restartTimers' = restartTimers + 1
          /\ restartTimers' > restartTimers
             => \E p \in 1..MaxSpawns : workers[p] # "closed" /\ workers'[p] = "closed"]_vars

\* C12 witness: the first child has exited and the child spawned by the
\* restart timer is running.
C12_Witness ==
    /\ workers[1] = "closed"
    /\ workers[2] = "alive"
    /\ mcpProcess = 2
    /\ restartTimers = 0

\* no child is running and none is on its way out: every child spawned so
\* far has emitted 'close', or the spawn attempt threw
WorkerDead == \A p \in 1..MaxSpawns : workers[p] \in {"none", "closed"}

\* C13: with the configuration present, whenever the worker is dead after
\* an exit, however many spawn attempts have failed since, the bridge is
\* running and a restart is scheduled: a new attempt will be made.
C13_RecoveryScheduled ==
    (envOk /\ WorkerDead /\ Spawned # {}) => (bridge = "running" /\ restartTimers > 0)

\* C14: with the configuration present, a failed spawn attempt, whether
\* reported by the 'error' event or thrown by spawn, never terminates the
\* bridge process.
C14_SpawnErrorContained ==
    [][(envOk /\ bridge = "running") => bridge' = "running"]_vars

\* C15: initializeMCP run without KIWI_BASE_URL or KIWI_TOKEN spawns no
\* child, terminates the bridge process and schedules no retry: no child
\* exists, no warm-up timer and no restart timer is armed, and the bridge has
\* exited.
C15_ConfigurationMissing ==
    ~envOk => /\ bridge = "exited"
              /\ Spawned = {}
              /\ mcpProcess = 0
              /\ readyTimers = {}
              /\ restartTimers = 0
              /\ ~isReady

\* C15 witness: initializeMCP has run without the configuration.
C15_Witness ==
    /\ ~envOk
    /\ bridge = "exited"
    /\ mcpProcess = 0

\* a line that is not a JSON object with an id: log text, truncated JSON, an
\* array, an object without id
Malformed(line) == ~JsonParse(line).ok \/ JsonParse(line).value.id = NoId

\* C16: lines that are not well-formed JSON objects with an id are
\* discarded: a chunk bringing only such lines changes neither requestQueue
\* nor any outcome nor any timer; no line stops the reader; and a well-formed
\* response in the same chunk, whatever precedes it, still resolves the
\* oldest call registered under its id.
C16_MalformedLineTolerance ==
    [][/\ (NewLines # <<>> /\ \A i \in 1..Len(NewLines) : Malformed(NewLines[i]))
          => UNCHANGED <<requestQueue, outcome, timers>>
       /\ bridge' = "running"
       /\ \A i \in 1..Len(NewLines) :
            (~Malformed(NewLines[i])
                /\ JsonParse(NewLines[i]).value.id \in QueueIds(requestQueue))
               => LET id == JsonParse(NewLines[i]).value.id
                      c == requestQueue[FindIndex(requestQueue, id)].call
                  IN  /\ outcome'[c] = Outcome("response", [id |-> id])
                      /\ ~InQueue(requestQueue', c)]_vars

\* C16 witness: truncated JSON was followed by the response of call 1; both
\* lines were handed over and call 1 is resolved.
C16_Witness ==
    /\ written = << <<"{", "a">>, <<"{", "a", "}">> >>
    /\ delivered = written
    /\ outcome[1] = Outcome("response", [id |-> "a"])
    /\ requestQueue = <<>>
    /\ bridge = "running"

\* the only child spawned so far has exited
OnlyWorkerExited == Spawned = {1} /\ workers[1] = "closed"

\* C17: worker-unavailable, timeout and worker-crashed are answered with
\* pairwise different HTTP results.  The answers for worker-unavailable,
\* timeout and a write error differ; and a call that is outstanding when the
\* only child has exited, and then fails, is answered with something other
\* than the answer of a timeout.
C17_DistinctErrorKinds ==
    [][/\ HttpReply(Outcome("unavailable", NoResp)) # HttpReply(Outcome("timeout", NoResp))
       /\ HttpReply(Outcome("unavailable", NoResp)) # HttpReply(Outcome("sendError", NoResp))
       /\ HttpReply(Outcome("timeout", NoResp)) # HttpReply(Outcome("sendError", NoResp))
       /\ \A c \in Calls :
            (/\ OnlyWorkerExited
             /\ outcome[c] = Pending
             /\ InQueue(requestQueue, c)
             /\ outcome'[c] # Pending
             /\ outcome'[c].kind # "response")
               => HttpReply(outcome'[c]) # HttpReply(Outcome("timeout", NoResp))]_vars

\* C18: isReady is true only while the child referenced by mcpProcess is
\* running.
C18_ReadinessTruthful ==
    isReady => (mcpProcess # 0 /\ workers[mcpProcess] = "alive")

\* C19: every accepted call writes, in the step that registers it, exactly
\* one text to the stdin of the current child: one complete line, its only
\* terminator at the end, holding the JSON of that call's request; and
\* nothing else ever writes to stdin.  Calls are numbered in the order of
\* their forwardToMCP invocations, so the lines are on the wire in that order.
C19_SerializedSends ==
    [][/\ (PostStep /\ outcome'[nextCall] = Pending)
          => /\ Len(stdin') = 1
             /\ stdin'[1].call = nextCall
             /\ stdin'[1].to = mcpProcess
             /\ LET line == stdin'[1].line
                IN  /\ line # <<>>
                    /\ Last(line) = NL
                    /\ CountNL(line) = 1
                    /\ JsonParse(Front(line)).ok
                    /\ RequestId(JsonParse(Front(line)).value.id, now')
                          = requestQueue'[Len(requestQueue')].id
       /\ stdin' # <<>>
          => /\ PostStep
             /\ outcome'[nextCall] = Pending
             /\ stdin'[1].call = nextCall]_vars

\* C19 witness: the request of call 2 has just been written while call 1 is
\* still outstanding.
C19_Witness ==
    /\ Len(stdin) = 1
    /\ stdin[1].call = 2
    /\ stdin[1].line = <<"{", "b", "}", NL>>
    /\ outcome[1] = Pending
    /\ outcome[2] = Pending

\* C20: the timer of a call is armed once, at registration, and only its
\* firing disarms it: a child exit or respawn leaves the call timers as they
\* are; and once a child has exited, a call that is still unresolved when
\* its timer fires is rejected with the timeout error at that step.
C20_DeadlineIndependentOfRestarts ==
    [][/\ workers' # workers => timers' = timers
       /\ timers' # timers
          => \/ TimerStep
             \/ /\ PostStep
                /\ ~HasTimer(nextCall)
                /\ timers' = Append(timers, [id |-> requestQueue'[Len(requestQueue')].id,
                                             call |-> nextCall])
       /\ (TimerStep /\ outcome[Head(timers).call] = Pending
              /\ \E p \in 1..MaxSpawns : workers[p] = "closed")
          => outcome'[Head(timers).call] = Outcome("timeout", NoResp)]_vars

\* C20, the part the code keeps: call timers are armed at registration and
\* disarmed by firing only; a child exit or respawn leaves them untouched,
\* and a call whose entry is in requestQueue when its timer fires times out.
C20_TimersUntouchedByRestarts ==
    [][/\ workers' # workers => timers' = timers
       /\ timers' # timers => (TimerStep \/ (PostStep /\ ~HasTimer(nextCall)))
       /\ (TimerStep /\ outcome[Head(timers).call] = Pending
              /\ InQueue(requestQueue, Head(timers).call))
          => outcome'[Head(timers).call] = Outcome("timeout", NoResp)]_vars

\* C21: a chunk arriving on a child's stderr, whatever its text, changes
\* neither requestQueue nor responseBuffer nor isReady nor any outcome: the
\* steps that log a stderr chunk leave all four as they are.
C21_StderrIsolation ==
    [][stderrLog' # stderrLog
          => UNCHANGED <<requestQueue, responseBuffer, isReady, outcome>>]_vars

\* C21 witness: the text of a well-formed response for id "a" arrived on
\* stderr while call 1, registered as "a", is outstanding.
C21_Witness ==
    /\ stderrLog.text = <<"{", "a", "}">>
    /\ requestQueue = <<[id |-> "a", call |-> 1]>>
    /\ outcome[1] = Pending

\* C22: a request is written to the stdin of a child only after that
\* child's own warm-up delay has elapsed: no step writes to a running child
\* whose warm-up timer is still armed.
C22_WarmupGating ==
    [][stdin' # <<>>
          => ~(workers[stdin'[1].to] = "alive" /\ stdin'[1].to \in readyTimers)]_vars

\* C23: requestQueue holds exactly the accepted calls that have no outcome
\* yet; in particular a call that was rejected because the write to stdin
\* threw has no entry in requestQueue.
C23_InFlightSetExact ==
    \A i \in 1..Len(requestQueue) : outcome[requestQueue[i].call] = Pending

\* C24: the id under which an accepted call is stored in requestQueue is the
\* id member of the JSON message written to the child for it.
C24_RegisteredIdIsWireId ==
    [][(PostStep /\ outcome'[nextCall] = Pending)
          => JsonParse(Front(stdin'[1].line)).value.id
                = requestQueue'[Len(requestQueue')].id]_vars

\* C25: the timer of a call that has already been resolved removes no entry
\* of requestQueue and fails no call when it fires.
C25_StaleTimerHarmless ==
    [][(TimerStep /\ outcome[Head(timers).call] # Pending)
          => UNCHANGED <<requestQueue, outcome>>]_vars

\* C26: every string passed to handleMCPResponse is made of the bytes of
\* one child only: it is (the trimmed text of) a line that a child wrote,
\* never the unfinished line of an exited child followed by text of the
\* next child.
C26_BufferIsolatedAcrossRestarts ==
    \A i \in 1..Len(delivered) :
        \E j \in 1..Len(written) : delivered[i] = Trim(written[j])

\* the lines of ls, each followed by its terminator, as one text
RECURSIVE Concat(_)
Concat(ls) == IF ls = <<>> THEN <<>> ELSE Head(ls) \o <<NL>> \o Concat(Tail(ls))

\* the text the bridge has read from the child so far
Received == SubSeq(Concat(written), 1, Len(Concat(written)) - Len(pipe))

\* the part of s after its last line terminator (all of s when it has none)
RECURSIVE AfterLastNL(_)
AfterLastNL(s) ==
    IF s = <<>> THEN <<>>
    ELSE IF s[Len(s)] = NL THEN <<>>
    ELSE Append(AfterLastNL(SubSeq(s, 1, Len(s) - 1)), s[Len(s)])

\* C27: after every chunk responseBuffer contains no line terminator and is
\* the text received since the last terminator, empty when the chunk ended
\* on one; so no complete line is ever held back in the buffer.
C27_BufferInvariant ==
    /\ CountNL(responseBuffer) = 0
    /\ responseBuffer = AfterLastNL(Received)

\* C27 witness: a chunk ended in the middle of the second line, after the
\* first line was handed over; the buffer holds the beginning of the second.
C27_Witness ==
    /\ written = << <<"x">>, <<"{", "a", "}">> >>
    /\ delivered = << <<"x">> >>
    /\ responseBuffer = <<"{", "a">>
    /\ pipe = <<"}", NL>>

\* the line is a well-formed response carrying the id rid
ResponseFor(line, rid) == JsonParse(line).ok /\ JsonParse(line).value.id = rid

\* C28: the step that writes a call's request to stdin also leaves the call
\* registered in requestQueue, so the earliest response is not lost: when
\* the very next step hands over a response carrying the id the call was
\* registered under, the oldest call registered under that id is resolved
\* with it (the call itself when no older call shares its id).
C28_RegisterBeforeSend ==
    [][/\ stdin' # <<>> => InQueue(requestQueue', stdin'[1].call)
       /\ (stdin # <<>> /\ InQueue(requestQueue, stdin[1].call))
          => LET rid == requestQueue[EntryOf(requestQueue, stdin[1].call)].id
                 d == requestQueue[FindIndex(requestQueue, rid)].call
             IN  (\E i \in 1..Len(NewLines) : ResponseFor(NewLines[i], rid))
                    => /\ outcome'[d] = Outcome("response", [id |-> rid])
                       /\ ~InQueue(requestQueue', d)]_vars

\* C28 witness: the request of call 1 has just been written and the child's
\* response for it is already waiting in the pipe.
C28_Witness ==
    /\ stdin # <<>>
    /\ stdin[1].call = 1
    /\ requestQueue = <<[id |-> "a", call |-> 1]>>
    /\ pipe = <<"{", "a", "}", NL>>
    /\ responseBuffer = <<>>

\* the lines read so far that are not empty or blank
NonBlankLinesRead == SelectSeq(LinesRead, LAMBDA l : Trim(l) # <<>>)

\* C29: every string passed to handleMCPResponse is non-empty, contains no
\* line terminator and has no blank at either end; empty and blank lines are
\* not passed on, and the other lines are passed on in the order written.
C29_DeliveredLineShape ==
    /\ \A i \in 1..Len(delivered) :
         /\ delivered[i] # <<>>
         /\ CountNL(delivered[i]) = 0
         /\ ~IsSpace(delivered[i][1])
         /\ ~IsSpace(delivered[i][Len(delivered[i])])
    /\ Len(delivered) = Len(NonBlankLinesRead)
    /\ \A i \in 1..Len(delivered) : delivered[i] = Trim(NonBlankLinesRead[i])

\* C29 witness: a blank line was written before a response; only the
\* response was handed over.
C29_Witness ==
    /\ written = << <<" ">>, <<"{", "a", "}">> >>
    /\ pipe = <<>>
    /\ delivered = << <<"{", "a", "}">> >>

====
